---- MODULE Spec2Model ----
(***************************************************************************)
(* A model of the S3 bucket browser: the HTTP route handlers               *)
(* (/api/list, /api/delete, /api/upload, /api/move, /api/presign,          *)
(* /api/download-folder), the empty-bucket routine of the index route, the *)
(* grouping and the drag and drop of the file browser, two move requests   *)
(* in flight at the same time, the upload form, and the selection, the     *)
(* file sheet and the delete dialogs of the file browser.                  *)
(*                                                                         *)
(* A JavaScript string is a sequence of one-character strings, so that     *)
(* slice, replace, split and startsWith are computed as the code computes  *)
(* them.  The bucket is a function from keys to a content or NoObject.     *)
(* A backend call (Bun.s3 ...) either succeeds or throws; a handler that   *)
(* throws ends its request with status 500.                                *)
(***************************************************************************)
EXTENDS Integers, Sequences, FiniteSets, TLC

VARIABLES
    bucket,      \* the objects of the bucket: key -> content or NoObject
    pc,          \* position of the request in flight
    req,         \* the request in flight (or the last one, once pc = "done")
    content,     \* api.move.ts: the local `content`
    resp,        \* the response of the request
    calls,       \* the backend calls the request has issued so far, in order
    pre,         \* the bucket when the request was received
    prev,        \* the request before this one: its operation, key and status
    files,       \* api.delete.ts (download-folder): the local `files`
    idx,         \* position of a `for ... of` loop over a listing
    zip,         \* api.delete.ts (download-folder): the JSZip under construction
    contents,    \* index.tsx handleEmptyBucket: the local `contents`
    deleted,     \* index.tsx handleEmptyBucket: the local `deleted`
    showEmptyBucketConfirm, \* index.tsx: the state of that name
    isEmptyingBucket,       \* index.tsx: the state of that name
    toast,       \* the notification shown last
    currentPath, \* index.tsx: the state `currentPath`
    objects,     \* index.tsx: `data.contents`, the listing handed to the browser
    grouped,     \* FileBrowser: `groupedObjects`
    moves,       \* api.move.ts: the move requests in flight at the same time
    draggedFile, \* FileBrowser: the state `draggedFile`
    uploadQueue, \* FileUpload: the state `files`
    batch,       \* FileUpload.uploadFiles: the `files` the running call iterates
    fileIdx,     \* FileUpload.uploadFiles: the loop index `i`
    uploading,   \* FileUpload: the state `uploading`
    progress,    \* FileUpload: the state `progress`
    useCustomPrefix, \* FileUpload: the state of that name
    customPrefix,    \* FileUpload: the state of that name
    deleteKey,   \* FileBrowser: the state `deleteKey`
    showBulkDeleteConfirm, \* FileBrowser: the state of that name
    selectedFile, \* FileBrowser: the state `selectedFile`
    selectedKeys, \* FileBrowser: the state `selectedKeys`, in insertion order
    deleting,    \* index.tsx: the call of handleDelete a single delete started
    bulk         \* FileBrowser.handleBulkDelete: the keys its loop runs over, and its position

vars == <<bucket, pc, req, content, resp, calls, pre, prev, files, idx, zip,
          contents, deleted, showEmptyBucketConfirm, isEmptyingBucket, toast,
          currentPath, objects, grouped, moves, draggedFile, uploadQueue,
          batch, fileIdx, uploading, progress, useCustomPrefix, customPrefix,
          deleteKey, showBulkDeleteConfirm, selectedFile, selectedKeys,
          deleting, bulk>>

-----------------------------------------------------------------------------
(* Bounds of the model *)

\* The most objects a bucket holds in an initial state.
MaxObjects == 4

\* The most files the upload form holds in its queue.
MaxFiles == 2

\* The page size of a listing.  The code asks for maxKeys: 1000
\* (api.list.ts:12, api.delete.ts:30); the model scales the page down so that
\* a bucket can hold more objects than one page.
PageSize == 3

-----------------------------------------------------------------------------
(* Values *)

NoObject == "NoObject"
None == "None"

Contents == {"c1", "c2"}

\* The keys of the model.  '/' is the separator the code splits on.
Keys ==
    { <<"a">>,
      <<"a", "/">>,
      <<"a", "/", "x">>,
      <<"a", "x">>,
      <<"a", "/", "/", "x">>,
      <<"a", "/", "y", "/", "z">>,
      <<"a", "/", "y", "/", "w">>,
      <<"/", "x">>,
      <<"e">> }

\* The keys the single-object requests of Spec are about.
OpKeys == { <<"a">>, <<"e">>, <<"a", "/", "x">> }

\* The prefixes and paths a request or the address bar can carry.
Prefixes ==
    { <<>>,
      <<"a">>,
      <<"a", "/">>,
      <<"a", "/", "y">>,
      <<"a", "/", "y", "/">>,
      <<"/">> }

-----------------------------------------------------------------------------
(* JavaScript strings *)

Digits == <<"0", "1", "2", "3", "4", "5", "6", "7", "8", "9">>

IsDigit(c) == \E i \in DOMAIN Digits : Digits[i] = c

DigitValue(c) == (CHOOSE i \in DOMAIN Digits : Digits[i] = c) - 1

\* The UTF-8 code of a character: S3 lists keys in binary order.
CharCode(c) ==
    CASE c = "/" -> 47
      [] IsDigit(c) -> 48 + DigitValue(c)
      [] c = "a" -> 97
      [] c = "e" -> 101
      [] c = "w" -> 119
      [] c = "x" -> 120
      [] c = "y" -> 121
      [] c = "z" -> 122

\* s.startsWith(p)
StartsWith(s, p) ==
    /\ Len(p) <= Len(s)
    /\ SubSeq(s, 1, Len(p)) = p

\* s.slice(n), n >= 0
Slice(s, n) == IF n >= Len(s) THEN <<>> ELSE SubSeq(s, n + 1, Len(s))

\* Mutant of ReplaceLeadingSlash: every leading '/' is removed (/^\/+/).
RECURSIVE ReplaceLeadingSlashes(_)
ReplaceLeadingSlashes(s) ==
    IF Len(s) > 0 /\ Head(s) = "/" THEN ReplaceLeadingSlashes(Tail(s)) ELSE s

\* s.replace(/^\//, '')
ReplaceLeadingSlash(s) == IF Len(s) > 0 /\ Head(s) = "/" THEN Tail(s) ELSE s

\* s.split('/'): the segments between the separators; never empty, ''.split
\* gives [''].
RECURSIVE Split(_)
Split(s) ==
    IF \A i \in 1..Len(s) : s[i] # "/"
    THEN <<s>>
    ELSE LET i == CHOOSE j \in 1..Len(s) :
                      /\ s[j] = "/"
                      /\ \A h \in 1..(j - 1) : s[h] # "/"
         IN <<SubSeq(s, 1, i - 1)>> \o Split(Slice(s, i))

\* a.filter(Boolean) on an array of strings: the non-empty ones
RECURSIVE FilterBoolean(_)
FilterBoolean(a) ==
    IF a = <<>> THEN <<>>
    ELSE IF Head(a) = <<>> THEN FilterBoolean(Tail(a))
    ELSE <<Head(a)>> \o FilterBoolean(Tail(a))

\* a.join('/')
RECURSIVE Join(_)
Join(a) ==
    IF a = <<>> THEN <<>>
    ELSE IF Len(a) = 1 THEN Head(a)
    ELSE Head(a) \o <<"/">> \o Join(Tail(a))

\* Binary order of two strings.
RECURSIVE KeyLess(_, _)
KeyLess(s, t) ==
    IF t = <<>> THEN FALSE
    ELSE IF s = <<>> THEN TRUE
    ELSE IF Head(s) # Head(t) THEN CharCode(Head(s)) < CharCode(Head(t))
    ELSE KeyLess(Tail(s), Tail(t))

\* The strings of S in binary order.
RECURSIVE Sorted(_)
Sorted(S) ==
    IF S = {} THEN <<>>
    ELSE LET m == CHOOSE k \in S : \A o \in S \ {k} : KeyLess(k, o)
         IN <<m>> \o Sorted(S \ {m})

Range(f) == { f[i] : i \in DOMAIN f }

-----------------------------------------------------------------------------
(* The storage backend (Bun.s3) *)

Present(b) == { k \in DOMAIN b : b[k] # NoObject }

\* Mutant of Put: a write that does not replace an existing object.
PutIfAbsent(b, k, c) == IF b[k] = NoObject THEN [b EXCEPT ![k] = c] ELSE b

\* file.write(c): the object at k is c afterwards, whatever was there.  A key
\* the bucket has not seen before joins its domain.
Put(b, k, c) ==
    IF k \in DOMAIN b
    THEN [b EXCEPT ![k] = c]
    ELSE [h \in DOMAIN b \cup {k} |-> IF h = k THEN c ELSE b[h]]

\* The object at k: NoObject for a key the bucket has never held.
At(b, k) == IF k \in DOMAIN b THEN b[k] ELSE NoObject

\* Mutant of Remove: a delete that reports success and removes nothing.
RemoveNothing(b, k) == b

\* file.delete(): no object at k afterwards.
Remove(b, k) == [b EXCEPT ![k] = NoObject]

\* Mutant of List: every matching key, however many there are.
ListWithoutCap(b, prefix) == Sorted({ k \in Present(b) : StartsWith(k, prefix) })

\* Bun.s3.list({prefix, maxKeys}).contents: the keys that start with the
\* prefix, in binary order, one page of them.
List(b, prefix) ==
    LET all == Sorted({ k \in Present(b) : StartsWith(k, prefix) })
    IN  IF Len(all) > PageSize THEN SubSeq(all, 1, PageSize) ELSE all

\* The buckets of the initial states: at most MaxObjects objects at keys of K.
Buckets(K) ==
    { b \in [Keys -> Contents \cup {NoObject}] :
        /\ Present(b) \subseteq K
        /\ Cardinality(Present(b)) <= MaxObjects }

\* A backend call, as the log keeps it: what was called on which key, and
\* whether it succeeded.
Call(op, key, ok) == [op |-> op, key |-> key, ok |-> ok]

\* The outcomes of a read: an object that is not there cannot be read.
ReadOutcomes(b, k) == IF b[k] = NoObject THEN {FALSE} ELSE BOOLEAN

\* A response: its status and its body.
Response(status, body) == [status |-> status, body |-> body]

NoBody == [none |-> TRUE]

\* No response yet.
NoResponse == Response(0, NoBody)

\* What the framework answers when a handler throws.
ServerError == Response(500, NoBody)

NoRequest == [op |-> None, key |-> <<>>]

\* A query parameter: searchParams.get(name) is null when it is not given.
Param(v) == [given |-> TRUE, value |-> v]

NoParam == [given |-> FALSE, value |-> <<>>]

\* !p for p = searchParams.get(name): null and '' are falsy.
Falsy(p) == ~p.given \/ p.value = <<>>

\* A JavaScript number that parseInt returns.
Num(n) == [nan |-> FALSE, n |-> n]

NaN == [nan |-> TRUE, n |-> 0]

\* The digits s starts with, as a number (acc is the value read so far).
RECURSIVE DigitPrefix(_, _)
DigitPrefix(s, acc) ==
    IF s = <<>> \/ ~IsDigit(Head(s)) THEN acc
    ELSE DigitPrefix(Tail(s), 10 * acc + DigitValue(Head(s)))

\* parseInt(s) of a string without blanks or sign: the value of the digits it
\* starts with, NaN when it starts with none.
ParseInt(s) ==
    IF s = <<>> \/ ~IsDigit(Head(s)) THEN NaN ELSE Num(DigitPrefix(s, 0))

\* A notification: its kind, its text, and the number the text carries.
Toast(kind, text, count) == [kind |-> kind, text |-> text, count |-> count]

NoToast == Toast(None, None, 0)

-----------------------------------------------------------------------------
(* Variables a specification leaves alone *)

zipVars == <<files, idx, zip>>
emptyVars == <<contents, deleted, showEmptyBucketConfirm, isEmptyingBucket, toast>>
uiVars == <<currentPath, objects, grouped>>
raceVars == <<moves>>
dragVars == <<draggedFile>>
uploadVars == <<uploadQueue, batch, fileIdx, uploading, progress,
                useCustomPrefix, customPrefix>>
selectVars == <<deleteKey, showBulkDeleteConfirm, selectedFile, selectedKeys,
                deleting, bulk>>
moreVars == <<raceVars, dragVars, uploadVars, selectVars>>

InitRequest ==
    /\ pc = "idle"
    /\ req = NoRequest
    /\ content = NoObject
    /\ resp = NoResponse
    /\ calls = <<>>
    /\ pre = bucket
    /\ prev = [op |-> None, key |-> <<>>, status |-> 0]

InitZip ==
    /\ files = <<>>
    /\ idx = 0
    /\ zip = <<>>

InitEmpty ==
    /\ contents = <<>>
    /\ deleted = 0
    /\ showEmptyBucketConfirm = FALSE
    /\ isEmptyingBucket = FALSE
    /\ toast = NoToast

InitUi ==
    /\ currentPath = <<>>
    /\ objects = <<>>
    /\ grouped = [folders |-> <<>>, files |-> <<>>]

\* No move request in flight.
NoMove == [pc |-> "idle", oldKey |-> <<>>, newKey |-> <<>>, content |-> NoObject,
           status |-> 0]

MoveIds == {1, 2}

InitRace == moves = [i \in MoveIds |-> NoMove]

\* useState<string | null>(null); null is modelled by a record.
NoFile == [dragged |-> FALSE, key |-> <<>>]

Dragged(key) == [dragged |-> TRUE, key |-> key]

InitDrag == draggedFile = NoFile

InitUpload ==
    /\ uploadQueue = <<>>
    /\ batch = [files |-> <<>>, useCustomPrefix |-> FALSE,
                customPrefix |-> <<>>, currentPath |-> <<>>]
    /\ fileIdx = 0
    /\ uploading = FALSE
    /\ progress = 0
    /\ useCustomPrefix = FALSE
    /\ customPrefix = <<>>

\* useState<... | null>(null) for a key; null is modelled by a record.
Null == [null |-> TRUE, key |-> <<>>]

Of(key) == [null |-> FALSE, key |-> key]

\* No call of handleBulkDelete yet.
NoBulk == [keys |-> <<>>, i |-> 0]

InitSelect ==
    /\ deleteKey = Null
    /\ showBulkDeleteConfirm = FALSE
    /\ selectedFile = Null
    /\ selectedKeys = <<>>
    /\ deleting = Null
    /\ bulk = NoBulk

InitMore == InitRace /\ InitDrag /\ InitUpload /\ InitSelect

\* The server takes the next request when the one before it was answered.
Idle == pc \in {"idle", "done"}

\* A request arrives: the handler starts with an empty log.
Receive(r, first) ==
    /\ Idle
    /\ req' = r
    /\ pc' = first
    /\ pre' = bucket
    /\ prev' = [op |-> req.op, key |-> req.key, status |-> resp.status]
    /\ calls' = <<>>
    /\ content' = NoObject
    /\ resp' = NoResponse
    /\ UNCHANGED bucket

\* The handler throws: the request ends with status 500.
Throw ==
    /\ pc' = "done"
    /\ resp' = ServerError

-----------------------------------------------------------------------------
(* POST /api/move *)

MoveReceive ==
    \E oldKey \in OpKeys, newKey \in OpKeys :
        /\ Receive([op |-> "move", key |-> oldKey, newKey |-> newKey], "move_read")
        /\ UNCHANGED <<zipVars, emptyVars, uiVars, moreVars>>

\* const content = await oldFile.arrayBuffer()
MoveRead ==
    /\ pc = "move_read"
    /\ \E ok \in ReadOutcomes(bucket, req.key) :
          /\ calls' = Append(calls, Call("read", req.key, ok))
          /\ IF ok
             THEN /\ content' = bucket[req.key]
                  /\ pc' = "move_write"
                  /\ UNCHANGED resp
             ELSE /\ Throw
                  /\ UNCHANGED content
    /\ UNCHANGED <<bucket, req, pre, prev, zipVars, emptyVars, uiVars, moreVars>>

\* Mutant of MoveWrite: the failure of the write is swallowed and the handler
\* goes on to the delete.
MoveWriteSwallowsFailure ==
    /\ pc = "move_write"
    /\ \E ok \in BOOLEAN :
          /\ calls' = Append(calls, Call("write", req.newKey, ok))
          /\ bucket' = IF ok THEN Put(bucket, req.newKey, content) ELSE bucket
          /\ pc' = "move_delete"
          /\ UNCHANGED resp
    /\ UNCHANGED <<req, content, pre, prev, zipVars, emptyVars, uiVars, moreVars>>

\* await newFile.write(content)
MoveWrite ==
    /\ pc = "move_write"
    /\ \E ok \in BOOLEAN :
          /\ calls' = Append(calls, Call("write", req.newKey, ok))
          /\ IF ok
             THEN /\ bucket' = Put(bucket, req.newKey, content)
                  /\ pc' = "move_delete"
                  /\ UNCHANGED resp
             ELSE /\ Throw
                  /\ UNCHANGED bucket
    /\ UNCHANGED <<req, content, pre, prev, zipVars, emptyVars, uiVars, moreVars>>

\* Mutant of MoveDelete: the delete is issued on newFile instead of oldFile.
MoveDeleteOfNewFile ==
    /\ pc = "move_delete"
    /\ \E ok \in BOOLEAN :
          /\ calls' = Append(calls, Call("delete", req.newKey, ok))
          /\ IF ok
             THEN /\ bucket' = Remove(bucket, req.newKey)
                  /\ pc' = "done"
                  /\ resp' = Response(200, [success |-> TRUE, oldKey |-> req.key,
                                            newKey |-> req.newKey])
             ELSE /\ Throw
                  /\ UNCHANGED bucket
    /\ UNCHANGED <<req, content, pre, prev, zipVars, emptyVars, uiVars, moreVars>>

\* await oldFile.delete(), then the response
MoveDelete ==
    /\ pc = "move_delete"
    /\ \E ok \in BOOLEAN :
          /\ calls' = Append(calls, Call("delete", req.key, ok))
          /\ IF ok
             THEN /\ bucket' = Remove(bucket, req.key)
                  /\ pc' = "done"
                  /\ resp' = Response(200, [success |-> TRUE, oldKey |-> req.key,
                                            newKey |-> req.newKey])
             ELSE /\ Throw
                  /\ UNCHANGED bucket
    /\ UNCHANGED <<req, content, pre, prev, zipVars, emptyVars, uiVars, moreVars>>

-----------------------------------------------------------------------------
(* POST /api/upload *)

UploadReceive ==
    \E key \in OpKeys, c \in Contents :
        /\ Receive([op |-> "upload", key |-> key, content |-> c], "upload_write")
        /\ UNCHANGED <<zipVars, emptyVars, uiVars, moreVars>>

\* await Bun.write(file, content), then the response
UploadWrite ==
    /\ pc = "upload_write"
    /\ \E ok \in BOOLEAN :
          /\ calls' = Append(calls, Call("write", req.key, ok))
          /\ IF ok
             THEN /\ bucket' = Put(bucket, req.key, req.content)
                  /\ pc' = "done"
                  /\ resp' = Response(200, [success |-> TRUE, key |-> req.key])
             ELSE /\ Throw
                  /\ UNCHANGED bucket
    /\ UNCHANGED <<req, content, pre, prev, zipVars, emptyVars, uiVars, moreVars>>

-----------------------------------------------------------------------------
(* POST /api/delete *)

DeleteReceive ==
    \E key \in OpKeys :
        /\ Receive([op |-> "delete", key |-> key], "delete_call")
        /\ UNCHANGED <<zipVars, emptyVars, uiVars, moreVars>>

\* await file.delete(), then the response.  The backend may or may not report
\* an object that is not there as an error; nothing is removed when it fails.
DeleteCall ==
    /\ pc = "delete_call"
    /\ \E ok \in BOOLEAN :
          /\ calls' = Append(calls, Call("delete", req.key, ok))
          /\ IF ok
             THEN /\ bucket' = Remove(bucket, req.key)
                  /\ pc' = "done"
                  /\ resp' = Response(200, [success |-> TRUE])
             ELSE /\ Throw
                  /\ UNCHANGED bucket
    /\ UNCHANGED <<req, content, pre, prev, zipVars, emptyVars, uiVars, moreVars>>

-----------------------------------------------------------------------------
(* GET /api/presign *)

\* The expiresIn parameters a request can carry.
ExpiresParams ==
    { NoParam,
      Param(<<>>),
      Param(<<"3", "0", "0">>),
      Param(<<"0">>),
      Param(<<"1", "2", "x">>),
      Param(<<"x">>) }

KeyParams == { NoParam, Param(<<>>) } \cup { Param(k) : k \in OpKeys }

\* '3600', the expiresIn of a request that gives none
DefaultExpiresIn == <<"3", "6", "0", "0">>

\* Mutant of ExpiresIn: no default for a request that gives no expiresIn.
ExpiresInWithoutDefault(p) == ParseInt(p.value)

\* parseInt(url.searchParams.get('expiresIn') || '3600')
ExpiresIn(p) == ParseInt(IF Falsy(p) THEN DefaultExpiresIn ELSE p.value)

\* file.presign({expiresIn}): the URL is computed locally from the key and
\* the lifetime it signs.
PresignUrl(key, expiresIn) == [key |-> key, expiresIn |-> expiresIn]

\* The handler has no await: it runs in one step.
Presign ==
    \E key \in KeyParams, e \in ExpiresParams :
        /\ Idle
        /\ req' = [op |-> "presign", key |-> key.value, keyParam |-> key,
                   expiresParam |-> e]
        /\ prev' = [op |-> req.op, key |-> req.key, status |-> resp.status]
        /\ pre' = bucket
        /\ pc' = "done"
        /\ IF Falsy(key)
           THEN /\ resp' = Response(400, [error |-> "Key is required"])
                /\ calls' = <<>>
           ELSE /\ resp' = Response(200, [url |-> PresignUrl(key.value, ExpiresIn(e))])
                /\ calls' = <<[op |-> "presign", key |-> key.value,
                               expiresIn |-> ExpiresIn(e)]>>
        /\ UNCHANGED <<bucket, content, zipVars, emptyVars, uiVars, moreVars>>

-----------------------------------------------------------------------------
(* The single-object requests, one at a time *)

Init ==
    /\ bucket \in Buckets(OpKeys)
    /\ InitRequest
    /\ InitZip
    /\ InitEmpty
    /\ InitMore
    /\ InitUi

Next ==
    \/ MoveReceive
    \/ MoveRead
    \/ MoveWrite
    \/ MoveDelete
    \/ UploadReceive
    \/ UploadWrite
    \/ DeleteReceive
    \/ DeleteCall
    \/ Presign

Spec == Init /\ [][Next]_vars

-----------------------------------------------------------------------------
(* GET /api/download-folder *)

\* The prefix parameters a request can carry.
PrefixParams == {NoParam} \cup { Param(p) : p \in Prefixes }

\* url.searchParams.get('prefix') || ''
PrefixOf(p) == IF Falsy(p) THEN <<>> ELSE p.value

\* prefix ? key.slice(prefix.length).replace(/^\//, '') : key
RelativePath(key, prefix) ==
    IF prefix # <<>> THEN ReplaceLeadingSlash(Slice(key, Len(prefix))) ELSE key

\* zip.file(name, data): the file entry of that name, replaced when the
\* archive has one already.  The archive is the sequence of its file entries;
\* entries the library adds for the folders of a name are not modelled.
ZipFile(z, name, data) ==
    IF \E i \in DOMAIN z : z[i].name = name
    THEN [i \in DOMAIN z |->
            IF z[i].name = name THEN [name |-> name, data |-> data] ELSE z[i]]
    ELSE Append(z, [name |-> name, data |-> data])

\* a.pop() of a non-empty array
Pop(a) == a[Len(a)]

\* Mutant of FolderName: without filter(Boolean).
FolderNameWithoutFilter(prefix) ==
    IF Pop(Split(prefix)) = <<>>
    THEN <<"d", "o", "w", "n", "l", "o", "a", "d">>
    ELSE Pop(Split(prefix))

\* prefix.split('/').filter(Boolean).pop() || 'download'
FolderName(prefix) ==
    LET segments == FilterBoolean(Split(prefix))
    IN  IF segments = <<>> \/ Pop(segments) = <<>>
        THEN <<"d", "o", "w", "n", "l", "o", "a", "d">>
        ELSE Pop(segments)

\* `${folderName}.zip`
ZipName(prefix) == FolderName(prefix) \o <<".", "z", "i", "p">>

ZipReceive ==
    \E p \in PrefixParams :
        /\ Idle
        /\ req' = [op |-> "download-folder", key |-> PrefixOf(p), prefix |-> PrefixOf(p)]
        /\ pc' = "zip_list"
        /\ pre' = bucket
        /\ calls' = <<>>
        /\ content' = NoObject
        /\ resp' = NoResponse
        /\ files' = <<>>
        /\ idx' = 0
        /\ zip' = <<>>
        /\ UNCHANGED <<bucket, prev, emptyVars, uiVars, moreVars>>

\* const result = await Bun.s3.list({ prefix, maxKeys: 1000 }); new JSZip()
ZipList ==
    /\ pc = "zip_list"
    /\ \E ok \in BOOLEAN :
          /\ calls' = Append(calls, Call("list", req.prefix, ok))
          /\ IF ok
             THEN /\ files' = List(bucket, req.prefix)
                  /\ idx' = 1
                  /\ pc' = "zip_loop"
                  /\ UNCHANGED resp
             ELSE /\ Throw
                  /\ UNCHANGED <<files, idx>>
    /\ UNCHANGED <<bucket, req, content, pre, prev, zip, emptyVars, uiVars, moreVars>>

\* Mutant of ZipFetch: an object that cannot be fetched is skipped and the
\* loop goes on.
ZipFetchSkipsFailure ==
    /\ pc = "zip_loop"
    /\ idx <= Len(files)
    /\ LET key == files[idx]
           relativePath == RelativePath(key, req.prefix)
       IN  \E ok \in ReadOutcomes(bucket, key) :
              /\ calls' = Append(calls, Call("read", key, ok))
              /\ content' = IF ok THEN bucket[key] ELSE content
              /\ zip' = IF ok /\ relativePath # <<>>
                        THEN ZipFile(zip, relativePath, bucket[key])
                        ELSE zip
              /\ idx' = idx + 1
              /\ UNCHANGED <<pc, resp>>
    /\ UNCHANGED <<bucket, req, pre, prev, files, emptyVars, uiVars, moreVars>>

\* One round of `for (const fileObj of files)`: fetch the object, then add it
\* under its relative path unless that is empty.
ZipFetch ==
    /\ pc = "zip_loop"
    /\ idx <= Len(files)
    /\ LET key == files[idx]
           relativePath == RelativePath(key, req.prefix)
       IN  IF key = <<>>
           THEN /\ idx' = idx + 1
                /\ UNCHANGED <<pc, resp, calls, content, zip>>
           ELSE \E ok \in ReadOutcomes(bucket, key) :
                  /\ calls' = Append(calls, Call("read", key, ok))
                  /\ IF ok
                     THEN /\ content' = bucket[key]
                          /\ zip' = IF relativePath # <<>>
                                    THEN ZipFile(zip, relativePath, bucket[key])
                                    ELSE zip
                          /\ idx' = idx + 1
                          /\ UNCHANGED <<pc, resp>>
                     ELSE /\ Throw
                          /\ UNCHANGED <<content, zip, idx>>
    /\ UNCHANGED <<bucket, req, pre, prev, files, emptyVars, uiVars, moreVars>>

\* zip.generateAsync, then the response with the archive and its file name
ZipRespond ==
    /\ pc = "zip_loop"
    /\ idx > Len(files)
    /\ pc' = "done"
    /\ resp' = Response(200, [zip |-> zip, filename |-> ZipName(req.prefix)])
    /\ UNCHANGED <<bucket, req, content, calls, pre, prev, zipVars, emptyVars, uiVars, moreVars>>

InitZipSpec ==
    /\ bucket \in Buckets(Keys)
    /\ InitRequest
    /\ InitZip
    /\ InitEmpty
    /\ InitMore
    /\ InitUi

NextZip ==
    \/ ZipReceive
    \/ ZipList
    \/ ZipFetch
    \/ ZipRespond

SpecZip == InitZipSpec /\ [][NextZip]_vars

-----------------------------------------------------------------------------
(* The file browser: index.tsx (path and listing) and FileBrowser (grouping) *)

\* currentPath ? currentPath.split('/').filter(Boolean) : []
PathParts(path) == IF path # <<>> THEN FilterBoolean(Split(path)) ELSE <<>>

\* Mutant of GroupStep: without `if (!relativePath) return acc`.
GroupStepWithoutEarlyReturn(acc, key, path) ==
    LET parts == Split(RelativePath(key, path))
    IN  IF Len(parts) = 1
        THEN [acc EXCEPT !.files = Append(@, key)]
        ELSE IF parts[1] \in Range(acc.folders)
             THEN acc
             ELSE [acc EXCEPT !.folders = Append(@, parts[1])]

\* Mutant of GroupStep: without the `includes` test, a folder name is pushed
\* for every key under it.
GroupStepWithoutIncludes(acc, key, path) ==
    LET relativePath == RelativePath(key, path)
        parts == Split(relativePath)
    IN  IF relativePath = <<>> THEN acc
        ELSE IF Len(parts) = 1
             THEN [acc EXCEPT !.files = Append(@, key)]
             ELSE [acc EXCEPT !.folders = Append(@, parts[1])]

\* The reducer of groupedObjects, for one object (an S3Object is modelled by
\* its key, the one field the grouping reads).
GroupStep(acc, key, path) ==
    LET relativePath == RelativePath(key, path)
        parts == Split(relativePath)
    IN  IF relativePath = <<>> THEN acc
        ELSE IF Len(parts) = 1
             THEN [acc EXCEPT !.files = Append(@, key)]
             ELSE IF parts[1] \in Range(acc.folders)
                  THEN acc
                  ELSE [acc EXCEPT !.folders = Append(@, parts[1])]

\* objects.reduce(..., { folders: [], files: [] })
RECURSIVE Reduce(_, _, _)
Reduce(acc, objs, path) ==
    IF objs = <<>> THEN acc
    ELSE Reduce(GroupStep(acc, Head(objs), path), Tail(objs), path)

GroupedObjects(objs, path) == Reduce([folders |-> <<>>, files |-> <<>>], objs, path)

\* The listing query of the route for a path, and the rendering of its result.
Show(path) ==
    /\ currentPath' = path
    /\ objects' = List(bucket, path)
    /\ grouped' = GroupedObjects(List(bucket, path), path)

\* refetch(): the listing of currentPath as the bucket is now.
Refetch == Show(currentPath)

\* handleFolderClick(folder), handleNavigate, and the query for the new path
HandleFolderClick ==
    \E i \in DOMAIN grouped.folders :
        LET folder == grouped.folders[i]
            newPath == IF currentPath # <<>>
                       THEN currentPath \o <<"/">> \o folder
                       ELSE folder
        IN  Show(newPath)
    /\ UNCHANGED <<bucket, pc, req, content, resp, calls, pre, prev, zipVars, emptyVars, moreVars>>

\* handleBreadcrumbClick(index), handleNavigate, and the query for the new path
HandleBreadcrumbClick ==
    \E index \in -1..(Len(PathParts(currentPath)) - 1) :
        LET newPath == IF index = -1
                       THEN <<>>
                       ELSE Join(SubSeq(PathParts(currentPath), 1, index + 1))
        IN  Show(newPath)
    /\ UNCHANGED <<bucket, pc, req, content, resp, calls, pre, prev, zipVars, emptyVars, moreVars>>

\* The browser opened at the path of the address bar, its listing loaded.
InitBrowserSpec ==
    /\ bucket \in Buckets(Keys)
    /\ InitRequest
    /\ InitZip
    /\ InitEmpty
    /\ InitMore
    /\ currentPath \in Prefixes
    /\ objects = List(bucket, currentPath)
    /\ grouped = GroupedObjects(objects, currentPath)

NextBrowser ==
    \/ HandleFolderClick
    \/ HandleBreadcrumbClick

SpecBrowser == InitBrowserSpec /\ [][NextBrowser]_vars

-----------------------------------------------------------------------------
(* index.tsx: the Empty Bucket button, its dialog and handleEmptyBucket *)

\* onClick={() => setShowEmptyBucketConfirm(true)}, disabled={isEmptyingBucket}
EmptyBucketClick ==
    /\ Idle
    /\ ~isEmptyingBucket
    /\ ~showEmptyBucketConfirm
    /\ showEmptyBucketConfirm' = TRUE
    /\ UNCHANGED <<bucket, pc, req, content, resp, calls, pre, prev, zipVars,
                   contents, deleted, isEmptyingBucket, toast, uiVars, moreVars>>

\* AlertDialogCancel: onOpenChange(false)
EmptyBucketCancel ==
    /\ Idle
    /\ showEmptyBucketConfirm
    /\ showEmptyBucketConfirm' = FALSE
    /\ UNCHANGED <<bucket, pc, req, content, resp, calls, pre, prev, zipVars,
                   contents, deleted, isEmptyingBucket, toast, uiVars, moreVars>>

\* `finally`: setIsEmptyingBucket(false), setShowEmptyBucketConfirm(false)
EmptyFinally ==
    /\ pc' = "done"
    /\ isEmptyingBucket' = FALSE
    /\ showEmptyBucketConfirm' = FALSE

\* `catch`: toast.error('Failed to empty bucket')
EmptyCatch ==
    /\ toast' = Toast("error", "Failed to empty bucket", 0)
    /\ EmptyFinally

\* AlertDialogAction onClick={handleEmptyBucket}: setIsEmptyingBucket(true).
\* Whether the dialog stays open while the routine runs is the dialog
\* library's choice.
EmptyStart ==
    /\ Idle
    /\ showEmptyBucketConfirm
    /\ ~isEmptyingBucket
    /\ isEmptyingBucket' = TRUE
    /\ showEmptyBucketConfirm' \in BOOLEAN
    /\ pc' = "empty_list"
    /\ req' = [op |-> "empty-bucket", key |-> <<>>]
    /\ pre' = bucket
    /\ calls' = <<>>
    /\ resp' = NoResponse
    /\ contents' = <<>>
    /\ deleted' = 0
    /\ idx' = 0
    /\ toast' = NoToast
    /\ UNCHANGED <<bucket, content, prev, files, zip, uiVars, moreVars>>

\* fetch('/api/list?prefix='), allObjects.json() and the test of `contents`.
\* A listing that fails on the server is answered with 500: its body either
\* is no JSON (json() throws) or is JSON without `contents`.
EmptyList ==
    /\ pc = "empty_list"
    /\ \E ok \in BOOLEAN, errorBodyIsJson \in BOOLEAN :
          LET listing == IF ok THEN List(bucket, <<>>) ELSE <<>>
          IN  /\ calls' = Append(calls, Call("list", <<>>, ok))
              /\ IF ~ok /\ ~errorBodyIsJson
                 THEN /\ EmptyCatch
                      /\ UNCHANGED <<contents, idx>>
                 ELSE /\ contents' = listing
                      /\ IF Len(listing) = 0
                         THEN /\ toast' = Toast("info", "Bucket is already empty", 0)
                              /\ EmptyFinally
                              /\ UNCHANGED idx
                         ELSE /\ idx' = 1
                              /\ pc' = "empty_loop"
                              /\ UNCHANGED <<toast, showEmptyBucketConfirm,
                                             isEmptyingBucket>>
    /\ deleted' = 0
    /\ UNCHANGED <<bucket, req, content, resp, pre, prev, files, zip, uiVars, moreVars>>

\* The outcomes of fetch('/api/delete'): the server deletes the object and
\* answers 200; the handler throws and the server answers 500; or the fetch
\* itself is rejected (the request does not reach the server).
DeleteFetchOutcomes == {"ok", "error", "rejected"}

\* One round of `for (const obj of contents)`: await fetch('/api/delete', ...)
\* and deleted++.  The response is not looked at.
EmptyDelete ==
    /\ pc = "empty_loop"
    /\ idx <= Len(contents)
    /\ LET key == contents[idx]
       IN  IF key = <<>>
           THEN /\ idx' = idx + 1
                /\ UNCHANGED <<bucket, calls, deleted, pc, toast,
                               showEmptyBucketConfirm, isEmptyingBucket>>
           ELSE \E outcome \in DeleteFetchOutcomes :
                  /\ calls' = Append(calls, Call("delete", key, outcome = "ok"))
                  /\ bucket' = IF outcome = "ok" THEN Remove(bucket, key) ELSE bucket
                  /\ IF outcome = "rejected"
                     THEN /\ EmptyCatch
                          /\ UNCHANGED <<deleted, idx>>
                     ELSE /\ deleted' = deleted + 1
                          /\ idx' = idx + 1
                          /\ UNCHANGED <<pc, toast, showEmptyBucketConfirm,
                                         isEmptyingBucket>>
    /\ UNCHANGED <<req, content, resp, pre, prev, files, zip, contents, uiVars, moreVars>>

\* After the loop: toast.success(`Successfully deleted ${deleted} objects`),
\* refetch(), `finally`.
EmptyFinish ==
    /\ pc = "empty_loop"
    /\ idx > Len(contents)
    /\ toast' = Toast("success", "Successfully deleted objects", deleted)
    /\ Refetch
    /\ EmptyFinally
    /\ UNCHANGED <<bucket, req, content, resp, calls, pre, prev, zipVars,
                   contents, deleted, moreVars>>

InitEmptySpec ==
    /\ bucket \in Buckets(Keys)
    /\ InitRequest
    /\ InitZip
    /\ InitEmpty
    /\ InitMore
    /\ InitUi

NextEmpty ==
    \/ EmptyBucketClick
    \/ EmptyBucketCancel
    \/ EmptyStart
    \/ EmptyList
    \/ EmptyDelete
    \/ EmptyFinish

SpecEmpty == InitEmptySpec /\ [][NextEmpty]_vars

-----------------------------------------------------------------------------
(* POST /api/move: two requests in flight at the same time.  A handler      *)
(* gives way to the other at each `await`.                                  *)

\* The request i has reached the server: const { oldKey, newKey } = body
MoveArrives ==
    \E i \in MoveIds, oldKey \in OpKeys, newKey \in OpKeys :
        /\ moves[i].pc = "idle"
        /\ moves' = [moves EXCEPT ![i] = [NoMove EXCEPT !.pc = "move_read",
                                                         !.oldKey = oldKey,
                                                         !.newKey = newKey]]
        /\ UNCHANGED <<bucket, pc, req, content, resp, calls, pre, prev,
                       zipVars, emptyVars, uiVars, selectVars, dragVars, uploadVars>>

\* const content = await oldFile.arrayBuffer()
MoveReads ==
    \E i \in MoveIds :
        /\ moves[i].pc = "move_read"
        /\ \E ok \in ReadOutcomes(bucket, moves[i].oldKey) :
              /\ calls' = Append(calls, Call("read", moves[i].oldKey, ok))
              /\ moves' = [moves EXCEPT ![i] =
                              IF ok
                              THEN [@ EXCEPT !.content = bucket[moves[i].oldKey],
                                             !.pc = "move_write"]
                              ELSE [@ EXCEPT !.pc = "done", !.status = 500]]
        /\ UNCHANGED <<bucket, pc, req, content, resp, pre, prev,
                       zipVars, emptyVars, uiVars, selectVars, dragVars, uploadVars>>

\* await newFile.write(content)
MoveWrites ==
    \E i \in MoveIds :
        /\ moves[i].pc = "move_write"
        /\ \E ok \in BOOLEAN :
              /\ calls' = Append(calls, Call("write", moves[i].newKey, ok))
              /\ bucket' = IF ok
                           THEN Put(bucket, moves[i].newKey, moves[i].content)
                           ELSE bucket
              /\ moves' = [moves EXCEPT ![i] =
                              IF ok
                              THEN [@ EXCEPT !.pc = "move_delete"]
                              ELSE [@ EXCEPT !.pc = "done", !.status = 500]]
        /\ UNCHANGED <<pc, req, content, resp, pre, prev,
                       zipVars, emptyVars, uiVars, selectVars, dragVars, uploadVars>>

\* await oldFile.delete(), then the response
MoveDeletes ==
    \E i \in MoveIds :
        /\ moves[i].pc = "move_delete"
        /\ \E ok \in BOOLEAN :
              /\ calls' = Append(calls, Call("delete", moves[i].oldKey, ok))
              /\ bucket' = IF ok THEN Remove(bucket, moves[i].oldKey) ELSE bucket
              /\ moves' = [moves EXCEPT ![i] =
                              [@ EXCEPT !.pc = "done",
                                        !.status = IF ok THEN 200 ELSE 500]]
        /\ UNCHANGED <<pc, req, content, resp, pre, prev,
                       zipVars, emptyVars, uiVars, selectVars, dragVars, uploadVars>>

InitRaceSpec ==
    /\ bucket \in Buckets(OpKeys)
    /\ InitRequest
    /\ InitZip
    /\ InitEmpty
    /\ InitUi
    /\ InitMore

NextRace ==
    \/ MoveArrives
    \/ MoveReads
    \/ MoveWrites
    \/ MoveDeletes

SpecRace == InitRaceSpec /\ [][NextRace]_vars

-----------------------------------------------------------------------------
(* FileBrowser: dragging a file onto a folder or a breadcrumb, and          *)
(* handleMove of the index route.  The state `dropTarget` only styles the   *)
(* target and is left out.                                                  *)

\* The drop targets of the breadcrumb bar: '' for the root button and
\* pathParts.slice(0, index + 1).join('/') for each part.
BreadcrumbTargets(path) ==
    {<<>>} \cup { Join(SubSeq(PathParts(path), 1, index + 1)) :
                    index \in 0..(Len(PathParts(path)) - 1) }

\* draggedFile.split('/').pop()
FileName(key) == Pop(Split(key))

\* handleBreadcrumbDrop: targetPath ? `${targetPath}/${fileName}` : fileName
BreadcrumbKey(targetPath, fileName) ==
    IF targetPath # <<>> THEN targetPath \o <<"/">> \o fileName ELSE fileName

\* handleDrop: `${newPath}/${fileName}` for the folder's path
FolderKey(path, targetFolder, fileName) ==
    LET newPath == IF path # <<>> THEN path \o <<"/">> \o targetFolder
                   ELSE targetFolder
    IN  newPath \o <<"/">> \o fileName

\* onDragStart of a file row: handleDragStart(e, file.key)
HandleDragStart ==
    /\ pc = "idle"
    /\ \E i \in DOMAIN grouped.files : draggedFile' = Dragged(grouped.files[i])
    /\ UNCHANGED <<bucket, pc, req, content, resp, calls, pre, prev, zipVars,
                   emptyVars, uiVars, selectVars, raceVars, uploadVars>>

\* onDragEnd of a file row
HandleDragEnd ==
    /\ draggedFile.dragged
    /\ draggedFile' = NoFile
    /\ UNCHANGED <<bucket, pc, req, content, resp, calls, pre, prev, zipVars,
                   emptyVars, uiVars, selectVars, raceVars, uploadVars>>

\* onMove(draggedFile, newKey): handleMove sends POST /api/move.
OnMove(newKey, target) ==
    /\ Receive([op |-> "move", key |-> draggedFile.key, newKey |-> newKey,
                target |-> target], "move_read")
    /\ UNCHANGED <<zipVars, emptyVars, uiVars, moreVars>>

\* A drop that returns before onMove: no file name.
DropReturns ==
    UNCHANGED <<bucket, pc, req, content, resp, calls, pre, prev, zipVars,
                emptyVars, uiVars, moreVars>>

\* handleDrop(e, targetFolder), up to the request of handleMove
HandleDrop ==
    /\ pc = "idle"
    /\ draggedFile.dragged
    /\ \E i \in DOMAIN grouped.folders :
          IF FileName(draggedFile.key) = <<>>
          THEN DropReturns
          ELSE OnMove(FolderKey(currentPath, grouped.folders[i],
                                FileName(draggedFile.key)),
                      [breadcrumb |-> FALSE, path |-> grouped.folders[i]])

\* handleBreadcrumbDrop(e, targetPath), up to the request of handleMove
HandleBreadcrumbDrop ==
    /\ pc = "idle"
    /\ draggedFile.dragged
    /\ \E targetPath \in BreadcrumbTargets(currentPath) :
          IF FileName(draggedFile.key) = <<>>
          THEN DropReturns
          ELSE OnMove(BreadcrumbKey(targetPath, FileName(draggedFile.key)),
                      [breadcrumb |-> TRUE, path |-> targetPath])

\* The rest of handleMove and of the drop handler once the request is
\* answered: the toast, the refetch of the listing, setDraggedFile(null).
HandleMoveResponse ==
    /\ pc = "done"
    /\ req.op = "move"
    /\ pc' = "idle"
    /\ IF resp.status = 200
       THEN /\ toast' = Toast("success", "File moved successfully", 0)
            /\ Show(currentPath)
       ELSE /\ toast' = Toast("error", "Failed to move file", 0)
            /\ UNCHANGED uiVars
    /\ draggedFile' = NoFile
    /\ UNCHANGED <<bucket, req, content, resp, calls, pre, prev, zipVars,
                   contents, deleted, showEmptyBucketConfirm, isEmptyingBucket,
                   selectVars, raceVars, uploadVars>>

\* The keys of the objects a bucket holds when the browser is opened for
\* dragging: files and folders of the root and of 'a'.
DragKeys ==
    { <<"e">>, <<"a", "x">>, <<"a", "/", "x">>, <<"a", "/", "/", "x">>,
      <<"a", "/", "y", "/", "z">> }

InitDropSpec ==
    /\ bucket \in Buckets(DragKeys)
    /\ InitRequest
    /\ InitZip
    /\ InitEmpty
    /\ InitMore
    /\ currentPath \in Prefixes
    /\ objects = List(bucket, currentPath)
    /\ grouped = GroupedObjects(objects, currentPath)

NextDrop ==
    \/ HandleDragStart
    \/ HandleDragEnd
    \/ HandleDrop
    \/ HandleBreadcrumbDrop
    \/ MoveRead
    \/ MoveWrite
    \/ MoveDelete
    \/ HandleMoveResponse

SpecDrop == InitDropSpec /\ [][NextDrop]_vars

-----------------------------------------------------------------------------
(* FileUpload: the upload form and its uploadFiles, with POST /api/upload   *)
(* as the server side.  A File is its name, its bytes (one character per    *)
(* byte) and its MIME type; a content that is written to the bucket is a    *)
(* string.                                                                  *)

\* The characters of s, joined into one string.
RECURSIVE Str(_)
Str(s) == IF s = <<>> THEN "" ELSE Head(s) \o Str(Tail(s))

Base64Alphabet ==
    <<"A", "B", "C", "D", "E", "F", "G", "H", "I", "J", "K", "L", "M", "N", "O", "P",
       "Q", "R", "S", "T", "U", "V", "W", "X", "Y", "Z", "a", "b", "c", "d", "e", "f",
       "g", "h", "i", "j", "k", "l", "m", "n", "o", "p", "q", "r", "s", "t", "u", "v",
       "w", "x", "y", "z", "0", "1", "2", "3", "4", "5", "6", "7", "8", "9", "+", "/">>

\* The base64 digit of a number below 64.
Sextet(n) == Base64Alphabet[n + 1]

\* The base64 encoding of a sequence of bytes, three bytes to four digits,
\* padded with '='.
RECURSIVE Base64(_)
Base64(bytes) ==
    IF bytes = <<>> THEN ""
    ELSE LET b1 == CharCode(bytes[1])
         IN  IF Len(bytes) = 1
             THEN Sextet(b1 \div 4) \o Sextet((b1 % 4) * 16) \o "=="
             ELSE LET b2 == CharCode(bytes[2])
                  IN  IF Len(bytes) = 2
                      THEN Sextet(b1 \div 4) \o Sextet((b1 % 4) * 16 + b2 \div 16)
                              \o Sextet((b2 % 16) * 4) \o "="
                      ELSE LET b3 == CharCode(bytes[3])
                           IN  Sextet(b1 \div 4)
                                  \o Sextet((b1 % 4) * 16 + b2 \div 16)
                                  \o Sextet((b2 % 16) * 4 + b3 \div 64)
                                  \o Sextet(b3 % 64)
                                  \o Base64(SubSeq(bytes, 4, Len(bytes)))

\* reader.readAsDataURL(file): e.target.result, a data: URL of the bytes.  A
\* file without a type is read as application/octet-stream.
ReadAsDataURL(file) ==
    "data:" \o (IF file.type = "" THEN "application/octet-stream" ELSE file.type)
            \o ";base64," \o Base64(file.bytes)

\* A File of the user's disk.
File(name, bytes, type) == [name |-> name, bytes |-> bytes, type |-> type]

\* The files the user picks from.
UserFiles ==
    { File(<<"x">>, <<"a">>, "text/plain"),
      File(<<"x">>, <<"a", "x">>, ""),
      File(<<"e">>, <<"a", "x", "e">>, "text/plain") }

\* What the user types into the custom prefix field.
CustomPrefixes == { <<>>, <<" ">>, <<"a">>, <<"/", "a", "/">> }

\* The paths the page is at when the upload form is used.
UploadPaths == { <<>>, <<"a">> }

\* String.prototype.trim for a string whose only white space is ' '.
RECURSIVE Trim(_)
Trim(s) ==
    IF s = <<>> THEN s
    ELSE IF Head(s) = " " THEN Trim(Tail(s))
    ELSE IF s[Len(s)] = " " THEN Trim(SubSeq(s, 1, Len(s) - 1))
    ELSE s

\* replace(/^\/+|\/+$/g, '')
RECURSIVE StripSlashes(_)
StripSlashes(s) ==
    IF s = <<>> THEN s
    ELSE IF Head(s) = "/" THEN StripSlashes(Tail(s))
    ELSE IF s[Len(s)] = "/" THEN StripSlashes(SubSeq(s, 1, Len(s) - 1))
    ELSE s

\* The key uploadFiles computes for a file, from the switch, the custom
\* prefix and currentPath as the running call sees them.
UploadKey(name, useCustom, custom, path) ==
    IF useCustom /\ custom # <<>>
    THEN LET cleanPrefix == StripSlashes(Trim(custom))
         IN  IF cleanPrefix # <<>> THEN cleanPrefix \o <<"/">> \o name ELSE name
    ELSE IF path # <<>> THEN path \o <<"/">> \o name
    ELSE name

\* What a call of uploadFiles closes over: the render's files, switch, custom
\* prefix and currentPath.
Closure == [files |-> uploadQueue, useCustomPrefix |-> useCustomPrefix,
            customPrefix |-> customPrefix, currentPath |-> currentPath]

NoClosure == [files |-> <<>>, useCustomPrefix |-> FALSE,
              customPrefix |-> <<>>, currentPath |-> <<>>]

\* handleFileSelect and handleDrop of the form: setFiles(prev => [...prev, ...])
HandleFileSelect ==
    /\ \E f \in UserFiles :
          /\ Len(uploadQueue) < MaxFiles
          /\ uploadQueue' = Append(uploadQueue, f)
    /\ UNCHANGED <<bucket, pc, req, content, resp, calls, pre, prev, zipVars,
                   emptyVars, uiVars, selectVars, raceVars, dragVars, batch, fileIdx,
                   uploading, progress, useCustomPrefix, customPrefix>>

\* removeFile(index); its button is disabled while uploading
RemoveFile ==
    /\ ~uploading
    /\ \E index \in 0..(Len(uploadQueue) - 1) :
          uploadQueue' = SubSeq(uploadQueue, 1, index)
                            \o SubSeq(uploadQueue, index + 2, Len(uploadQueue))
    /\ UNCHANGED <<bucket, pc, req, content, resp, calls, pre, prev, zipVars,
                   emptyVars, uiVars, selectVars, raceVars, dragVars, batch, fileIdx,
                   uploading, progress, useCustomPrefix, customPrefix>>

\* onCheckedChange={setUseCustomPrefix}.  A running uploadFiles does not see
\* the change (it reads its closure), so the change is taken between runs.
SetUseCustomPrefix ==
    /\ ~uploading
    /\ useCustomPrefix' = ~useCustomPrefix
    /\ UNCHANGED <<bucket, pc, req, content, resp, calls, pre, prev, zipVars,
                   emptyVars, uiVars, selectVars, raceVars, dragVars, uploadQueue, batch,
                   fileIdx, uploading, progress, customPrefix>>

\* onChange={(e) => setCustomPrefix(e.target.value)}, shown when the switch is on
SetCustomPrefix ==
    /\ ~uploading
    /\ useCustomPrefix
    /\ \E v \in CustomPrefixes \ {customPrefix} : customPrefix' = v
    /\ UNCHANGED <<bucket, pc, req, content, resp, calls, pre, prev, zipVars,
                   emptyVars, uiVars, selectVars, raceVars, dragVars, uploadQueue, batch,
                   fileIdx, uploading, progress, useCustomPrefix>>

\* The Upload button (shown when files.length > 0, disabled while uploading):
\* uploadFiles up to its loop.
UploadFiles ==
    /\ ~uploading
    /\ pc = "idle"
    /\ Len(uploadQueue) > 0
    /\ uploading' = TRUE
    /\ progress' = 0
    /\ batch' = Closure
    /\ fileIdx' = 0
    /\ UNCHANGED <<bucket, pc, req, content, resp, calls, pre, prev, zipVars,
                   emptyVars, uiVars, selectVars, raceVars, dragVars, uploadQueue,
                   useCustomPrefix, customPrefix>>

\* `finally` of uploadFiles; the call has ended and its locals are gone.
UploadFinally ==
    /\ uploading' = FALSE
    /\ progress' = 0
    /\ batch' = NoClosure
    /\ fileIdx' = 0

\* One turn of the loop up to the POST: the reader reads the file as a data
\* URL, onload computes the key and sends {key, content, contentType}.  When
\* the reader fails, the promise is rejected and uploadFiles ends.
ReadAndPost ==
    /\ uploading
    /\ pc = "idle"
    /\ fileIdx < Len(batch.files)
    /\ LET file == batch.files[fileIdx + 1]
           key == UploadKey(file.name, batch.useCustomPrefix, batch.customPrefix,
                            batch.currentPath)
       IN  \E loaded \in BOOLEAN :
              IF loaded
              THEN /\ req' = [op |-> "upload", key |-> key,
                               content |-> ReadAsDataURL(file)]
                   /\ pc' = "upload_write"
                   /\ pre' = bucket
                   /\ calls' = <<>>
                   /\ resp' = NoResponse
                   /\ UNCHANGED <<uploading, progress, batch, fileIdx>>
              ELSE /\ UploadFinally
                   /\ UNCHANGED <<pc, req, resp, calls, pre>>
    /\ UNCHANGED <<bucket, content, prev, zipVars, emptyVars, uiVars, selectVars, raceVars,
                   dragVars, uploadQueue, useCustomPrefix, customPrefix>>

\* The rest of the turn once the request is answered (the request and its
\* response are dropped when the client has read them): `Upload failed` ends
\* uploadFiles; otherwise setProgress (its integer part) and the next turn,
\* and after the last one setFiles([]) and onUploadComplete(), which refetches
\* the listing.
UploadResponse ==
    /\ uploading
    /\ pc = "done"
    /\ req.op = "upload"
    /\ pc' = "idle"
    /\ req' = NoRequest
    /\ resp' = NoResponse
    /\ calls' = <<>>
    /\ pre' = bucket
    /\ IF resp.status # 200
       THEN /\ UploadFinally
            /\ UNCHANGED <<uploadQueue, uiVars>>
       ELSE IF fileIdx + 1 < Len(batch.files)
            THEN /\ progress' = ((fileIdx + 1) * 100) \div Len(batch.files)
                 /\ fileIdx' = fileIdx + 1
                 /\ UNCHANGED <<uploadQueue, uploading, batch, uiVars>>
            ELSE /\ uploadQueue' = <<>>
                 /\ Show(currentPath)
                 /\ UploadFinally
    /\ UNCHANGED <<bucket, content, prev, zipVars, emptyVars, selectVars, raceVars, dragVars,
                   useCustomPrefix, customPrefix>>

InitUploadSpec ==
    /\ bucket \in Buckets({<<"e">>})
    /\ InitRequest
    /\ InitZip
    /\ InitEmpty
    /\ InitMore
    /\ currentPath \in UploadPaths
    /\ objects = List(bucket, currentPath)
    /\ grouped = GroupedObjects(objects, currentPath)

NextUpload ==
    \/ HandleFileSelect
    \/ RemoveFile
    \/ SetUseCustomPrefix
    \/ SetCustomPrefix
    \/ UploadFiles
    \/ ReadAndPost
    \/ UploadWrite
    \/ UploadResponse

SpecUpload == InitUploadSpec /\ [][NextUpload]_vars

-----------------------------------------------------------------------------
(* FileBrowser: selection, the file sheet, the delete dialogs and            *)
(* handleBulkDelete, with handleDelete of the index route.  A dialog or the  *)
(* sheet is modal: while one is open the rows behind it take no click.       *)

\* A dialog or the file sheet is open.
Modal ==
    \/ ~deleteKey.null
    \/ ~selectedFile.null
    \/ showBulkDeleteConfirm
    \/ showEmptyBucketConfirm

\* s without its element k.
Without(s, k) == SelectSeq(s, LAMBDA e : e # k)

\* toggleSelection(file.key) of a file row's checkbox
ToggleSelection ==
    /\ Idle
    /\ ~Modal
    /\ \E i \in DOMAIN grouped.files :
          LET key == grouped.files[i]
          IN  selectedKeys' = IF key \in Range(selectedKeys)
                              THEN Without(selectedKeys, key)
                              ELSE Append(selectedKeys, key)
    /\ UNCHANGED <<bucket, pc, req, content, resp, calls, pre, prev, zipVars,
                   emptyVars, uiVars, raceVars, dragVars, uploadVars, deleteKey,
                   showBulkDeleteConfirm, selectedFile, deleting, bulk>>

\* toggleSelectAll of the header checkbox, shown when there are files
ToggleSelectAll ==
    /\ Idle
    /\ ~Modal
    /\ Len(grouped.files) > 0
    /\ selectedKeys' = IF Len(selectedKeys) = Len(grouped.files)
                       THEN <<>>
                       ELSE grouped.files
    /\ UNCHANGED <<bucket, pc, req, content, resp, calls, pre, prev, zipVars,
                   emptyVars, uiVars, raceVars, dragVars, uploadVars, deleteKey,
                   showBulkDeleteConfirm, selectedFile, deleting, bulk>>

\* clearSelection of the Clear button, shown when selectedKeys.size > 0
ClearSelection ==
    /\ Idle
    /\ ~Modal
    /\ Len(selectedKeys) > 0
    /\ selectedKeys' = <<>>
    /\ UNCHANGED <<bucket, pc, req, content, resp, calls, pre, prev, zipVars,
                   emptyVars, uiVars, raceVars, dragVars, uploadVars, deleteKey,
                   showBulkDeleteConfirm, selectedFile, deleting, bulk>>

\* The Delete Selected button: setShowBulkDeleteConfirm(true)
DeleteSelectedClick ==
    /\ Idle
    /\ ~Modal
    /\ Len(selectedKeys) > 0
    /\ showBulkDeleteConfirm' = TRUE
    /\ UNCHANGED <<bucket, pc, req, content, resp, calls, pre, prev, zipVars,
                   emptyVars, uiVars, raceVars, dragVars, uploadVars, deleteKey,
                   selectedFile, selectedKeys, deleting, bulk>>

\* AlertDialogCancel of the bulk dialog: onOpenChange(false)
BulkDeleteCancel ==
    /\ Idle
    /\ showBulkDeleteConfirm
    /\ showBulkDeleteConfirm' = FALSE
    /\ UNCHANGED <<bucket, pc, req, content, resp, calls, pre, prev, zipVars,
                   emptyVars, uiVars, raceVars, dragVars, uploadVars, deleteKey,
                   selectedFile, selectedKeys, deleting, bulk>>

\* Mutant of DeleteMenuItem: the menu item deletes without the dialog.
DeleteMenuItemWithoutDialog ==
    /\ Idle
    /\ ~Modal
    /\ \E i \in DOMAIN grouped.files : deleting' = Of(grouped.files[i])
    /\ pc' = "delete_one"
    /\ calls' = <<>>
    /\ UNCHANGED <<bucket, req, content, resp, pre, prev, zipVars,
                   emptyVars, uiVars, raceVars, dragVars, uploadVars, deleteKey,
                   showBulkDeleteConfirm, selectedFile, selectedKeys, bulk>>

\* The Delete item of a file row's menu: setDeleteKey(file.key)
DeleteMenuItem ==
    /\ Idle
    /\ ~Modal
    /\ \E i \in DOMAIN grouped.files : deleteKey' = Of(grouped.files[i])
    /\ UNCHANGED <<bucket, pc, req, content, resp, calls, pre, prev, zipVars,
                   emptyVars, uiVars, raceVars, dragVars, uploadVars,
                   showBulkDeleteConfirm, selectedFile, selectedKeys, deleting,
                   bulk>>

\* A click on a file row: setSelectedFile(file)
FileRowClick ==
    /\ Idle
    /\ ~Modal
    /\ \E i \in DOMAIN grouped.files : selectedFile' = Of(grouped.files[i])
    /\ UNCHANGED <<bucket, pc, req, content, resp, calls, pre, prev, zipVars,
                   emptyVars, uiVars, raceVars, dragVars, uploadVars, deleteKey,
                   showBulkDeleteConfirm, selectedKeys, deleting, bulk>>

\* The sheet is closed: onOpenChange={() => setSelectedFile(null)}
SheetClose ==
    /\ Idle
    /\ ~selectedFile.null
    /\ selectedFile' = Null
    /\ UNCHANGED <<bucket, pc, req, content, resp, calls, pre, prev, zipVars,
                   emptyVars, uiVars, raceVars, dragVars, uploadVars, deleteKey,
                   showBulkDeleteConfirm, selectedKeys, deleting, bulk>>

\* The Delete File button of the sheet: setDeleteKey(selectedFile.key),
\* setSelectedFile(null)
SheetDeleteFile ==
    /\ Idle
    /\ ~selectedFile.null
    /\ deleteKey' = Of(selectedFile.key)
    /\ selectedFile' = Null
    /\ UNCHANGED <<bucket, pc, req, content, resp, calls, pre, prev, zipVars,
                   emptyVars, uiVars, raceVars, dragVars, uploadVars,
                   showBulkDeleteConfirm, selectedKeys, deleting, bulk>>

\* AlertDialogCancel of the 'Delete file?' dialog: setDeleteKey(null)
DeleteCancel ==
    /\ Idle
    /\ ~deleteKey.null
    /\ deleteKey' = Null
    /\ UNCHANGED <<bucket, pc, req, content, resp, calls, pre, prev, zipVars,
                   emptyVars, uiVars, raceVars, dragVars, uploadVars,
                   showBulkDeleteConfirm, selectedFile, selectedKeys, deleting,
                   bulk>>

\* AlertDialogAction of the 'Delete file?' dialog: onDelete(deleteKey),
\* setDeleteKey(null).  handleDelete runs up to its fetch.
DeleteConfirm ==
    /\ Idle
    /\ ~deleteKey.null
    /\ pc' = "delete_one"
    /\ deleting' = Of(deleteKey.key)
    /\ deleteKey' = Null
    /\ calls' = <<>>
    /\ UNCHANGED <<bucket, req, content, resp, pre, prev, zipVars,
                   emptyVars, uiVars, raceVars, dragVars, uploadVars,
                   showBulkDeleteConfirm, selectedFile, selectedKeys, bulk>>

\* handleDelete(key) from its fetch on: POST /api/delete is answered (or the
\* fetch is rejected); toast.success and refetch() when the response is ok,
\* toast.error otherwise.  handleDelete never throws.
HandleDelete(key, outcome) ==
    /\ calls' = Append(calls, Call("delete", key, outcome = "ok"))
    /\ bucket' = IF outcome = "ok" THEN Remove(bucket, key) ELSE bucket
    /\ IF outcome = "ok"
       THEN /\ toast' = Toast("success", "File deleted successfully", 0)
            /\ objects' = List(Remove(bucket, key), currentPath)
            /\ grouped' = GroupedObjects(List(Remove(bucket, key), currentPath),
                                         currentPath)
       ELSE /\ toast' = Toast("error", "Failed to delete file", 0)
            /\ UNCHANGED <<objects, grouped>>
    /\ UNCHANGED <<currentPath, contents, deleted, showEmptyBucketConfirm,
                   isEmptyingBucket>>

\* The single delete that was confirmed is carried out.
SingleDelete ==
    /\ pc = "delete_one"
    /\ \E outcome \in DeleteFetchOutcomes : HandleDelete(deleting.key, outcome)
    /\ deleting' = Null
    /\ pc' = "idle"
    /\ UNCHANGED <<req, content, resp, pre, prev, zipVars, raceVars, dragVars,
                   uploadVars, deleteKey, showBulkDeleteConfirm, selectedFile,
                   selectedKeys, bulk>>

\* AlertDialogAction of the bulk dialog: handleBulkDelete up to its loop over
\* the selectedKeys of this render.  Whether the dialog closes at the click is
\* the dialog library's choice.
HandleBulkDelete ==
    /\ Idle
    /\ showBulkDeleteConfirm
    /\ pc' = "delete_bulk"
    /\ bulk' = [keys |-> selectedKeys, i |-> 1]
    /\ showBulkDeleteConfirm' \in BOOLEAN
    /\ calls' = <<>>
    /\ UNCHANGED <<bucket, req, content, resp, pre, prev, zipVars,
                   emptyVars, uiVars, raceVars, dragVars, uploadVars, deleteKey,
                   selectedFile, selectedKeys, deleting>>

\* Mutant of BulkDeleteNext: the loop ends at a delete that failed.
BulkDeleteNextStopsAtFailure ==
    /\ pc = "delete_bulk"
    /\ bulk.i <= Len(bulk.keys)
    /\ \E outcome \in DeleteFetchOutcomes :
          /\ HandleDelete(bulk.keys[bulk.i], outcome)
          /\ bulk' = [bulk EXCEPT
                        !.i = IF outcome = "ok" THEN @ + 1 ELSE Len(bulk.keys) + 1]
    /\ UNCHANGED <<pc, req, content, resp, pre, prev, zipVars, raceVars, dragVars,
                   uploadVars, deleteKey, showBulkDeleteConfirm, selectedFile,
                   selectedKeys, deleting>>

\* One round of `for (const key of selectedKeys) await onDelete(key)`
BulkDeleteNext ==
    /\ pc = "delete_bulk"
    /\ bulk.i <= Len(bulk.keys)
    /\ \E outcome \in DeleteFetchOutcomes :
          /\ HandleDelete(bulk.keys[bulk.i], outcome)
          /\ bulk' = [bulk EXCEPT !.i = @ + 1]
    /\ UNCHANGED <<pc, req, content, resp, pre, prev, zipVars, raceVars, dragVars,
                   uploadVars, deleteKey, showBulkDeleteConfirm, selectedFile,
                   selectedKeys, deleting>>

\* After the loop: setSelectedKeys(new Set()), setShowBulkDeleteConfirm(false)
BulkDeleteFinish ==
    /\ pc = "delete_bulk"
    /\ bulk.i > Len(bulk.keys)
    /\ pc' = "idle"
    /\ selectedKeys' = <<>>
    /\ showBulkDeleteConfirm' = FALSE
    /\ bulk' = NoBulk
    /\ UNCHANGED <<bucket, req, content, resp, calls, pre, prev, zipVars,
                   emptyVars, uiVars, raceVars, dragVars, uploadVars, deleteKey,
                   selectedFile, deleting>>

\* handleEmptyBucket has returned: its locals are gone and the page is idle.
EmptyBucketEnded ==
    /\ pc = "done"
    /\ pc' = "idle"
    /\ req' = NoRequest
    /\ pre' = bucket
    /\ calls' = <<>>
    /\ contents' = <<>>
    /\ deleted' = 0
    /\ idx' = 0
    /\ UNCHANGED <<bucket, content, resp, prev, files, zip,
                   showEmptyBucketConfirm, isEmptyingBucket, toast, uiVars,
                   moreVars>>

\* The keys of the objects of a bucket the browser is opened on.
SelectKeys == { <<"e">>, <<"a", "x">>, <<"a", "/", "x">> }

\* The browser opened at the root, its listing loaded.
InitSelectSpec ==
    /\ bucket \in { b \in Buckets(SelectKeys) : \A k \in Present(b) : b[k] = "c1" }
    /\ InitRequest
    /\ InitZip
    /\ InitEmpty
    /\ InitMore
    /\ currentPath = <<>>
    /\ objects = List(bucket, currentPath)
    /\ grouped = GroupedObjects(objects, currentPath)

NextSelect ==
    \/ ToggleSelection
    \/ ToggleSelectAll
    \/ ClearSelection
    \/ DeleteSelectedClick
    \/ BulkDeleteCancel
    \/ DeleteMenuItem
    \/ FileRowClick
    \/ SheetClose
    \/ SheetDeleteFile
    \/ DeleteCancel
    \/ DeleteConfirm
    \/ SingleDelete
    \/ HandleBulkDelete
    \/ BulkDeleteNext
    \/ BulkDeleteFinish
    \/ HandleFolderClick
    \/ HandleBreadcrumbClick
    \/ EmptyBucketClick
    \/ EmptyBucketCancel
    \/ EmptyStart
    \/ EmptyList
    \/ EmptyDelete
    \/ EmptyFinish
    \/ EmptyBucketEnded

SpecSelect == InitSelectSpec /\ [][NextSelect]_vars

-----------------------------------------------------------------------------
(* Claims about the single-object requests *)

\* The request has ended and was a request of this operation.
Ended(op) == pc = "done" /\ req.op = op

\* Every backend call of the request succeeded, and there were n of them.
AllSucceeded(n) == Len(calls) = n /\ \A i \in 1..n : calls[i].ok

\* C1: a move with oldKey # newKey whose read, write and delete all succeed
\* ends with no object at oldKey, with the content oldKey held before at
\* newKey, and with the response {success: true, oldKey, newKey}.
C1_MoveMovesContent ==
    (Ended("move") /\ req.key # req.newKey /\ AllSucceeded(3)) =>
        /\ bucket[req.key] = NoObject
        /\ pre[req.key] # NoObject
        /\ bucket[req.newKey] = pre[req.key]
        /\ resp = Response(200, [success |-> TRUE, oldKey |-> req.key,
                                 newKey |-> req.newKey])

\* A move onto a key that held another content has succeeded.
C1_Witness ==
    /\ Ended("move") /\ req.key # req.newKey /\ AllSucceeded(3)
    /\ pre[req.newKey] \in Contents \ {pre[req.key]}

\* The steps of a move, in the order of the handler.
MoveSteps(r) ==
    <<[op |-> "read", key |-> r.key], [op |-> "write", key |-> r.newKey],
      [op |-> "delete", key |-> r.key]>>

\* C3: in a move a failed step is the last step (no later step is executed)
\* and nothing done before it is undone: after a failed read or a failed
\* write the bucket is as before the request, after a failed delete it is the
\* bucket before the request with the content written at newKey.
C3_MoveStopsAtFailure ==
    req.op = "move" =>
        /\ Len(calls) <= 3
        /\ \A i \in 1..Len(calls) :
              /\ calls[i].op = MoveSteps(req)[i].op
              /\ calls[i].key = MoveSteps(req)[i].key
              /\ ~calls[i].ok =>
                    /\ i = Len(calls)
                    /\ pc = "done"
                    /\ resp.status = 500
                    /\ i \in {1, 2} => bucket = pre
                    /\ i = 3 =>
                          /\ bucket[req.newKey] = pre[req.key]
                          /\ \A k \in Keys \ {req.newKey} : bucket[k] = pre[k]

\* The delete of a move between two keys has failed after its write.
C3_Witness ==
    /\ Ended("move") /\ req.key # req.newKey
    /\ Len(calls) = 3 /\ ~calls[3].ok
    /\ pre[req.newKey] # pre[req.key]

\* The value of a string of digits.
RECURSIVE DecimalValue(_)
DecimalValue(s) ==
    IF s = <<>> THEN 0
    ELSE 10 * DecimalValue(SubSeq(s, 1, Len(s) - 1)) + DigitValue(s[Len(s)])

AllDigits(s) == s # <<>> /\ \A i \in 1..Len(s) : IsDigit(s[i])

\* C7: presign answers 400 {error: "Key is required"} exactly when the request
\* has no (non-empty) key, and then calls the backend not at all; with a key it
\* calls the backend presign once, for that key and the requested expiresIn
\* (3600 when none is given), and answers {url} with the URL of that call.
C7_PresignRequiresKey ==
    Ended("presign") =>
        LET noKey == ~req.keyParam.given \/ req.keyParam.value = <<>>
            e == req.expiresParam
        IN  /\ (resp.status = 400) <=> noKey
            /\ noKey => /\ resp = Response(400, [error |-> "Key is required"])
                        /\ calls = <<>>
            /\ ~noKey =>
                  /\ Len(calls) = 1
                  /\ calls[1].op = "presign"
                  /\ calls[1].key = req.keyParam.value
                  /\ resp = Response(200, [url |-> PresignUrl(req.keyParam.value,
                                                              calls[1].expiresIn)])
                  /\ (~e.given \/ e.value = <<>>) => calls[1].expiresIn = Num(3600)
                  /\ (e.given /\ AllDigits(e.value)) =>
                        calls[1].expiresIn = Num(DecimalValue(e.value))

\* A presign request with a key and no expiresIn was answered.
C7_Witness ==
    /\ Ended("presign")
    /\ req.keyParam.given /\ req.keyParam.value # <<>>
    /\ ~req.expiresParam.given
    /\ resp.status = 200

\* C8: after a successful upload the bucket holds the request's content at the
\* key, whatever the key held before, every other key holds what it held
\* before, and the response is {success: true, key}.
C8_UploadOverwrites ==
    (Ended("upload") /\ AllSucceeded(1)) =>
        /\ bucket[req.key] = req.content
        /\ \A k \in Keys \ {req.key} : bucket[k] = pre[k]
        /\ resp = Response(200, [success |-> TRUE, key |-> req.key])

\* An upload has replaced an object of another content, beside another object.
C8_Witness ==
    /\ Ended("upload") /\ AllSucceeded(1)
    /\ pre[req.key] \in Contents \ {req.content}
    /\ \E k \in Keys \ {req.key} : pre[k] # NoObject

\* The request before this one was a successful delete of the same key.
DeletedJustBefore == prev.op = "delete" /\ prev.key = req.key /\ prev.status = 200

\* C9: a delete of the key that the request before it has deleted leaves the
\* bucket as that first delete left it, with no object at the key, whether
\* the second delete reports an error or not.  (pre is the bucket the second
\* request found, which is the bucket the first one left.)
C9_DeleteIdempotent ==
    (Ended("delete") /\ DeletedJustBefore) =>
        /\ bucket = pre
        /\ bucket[req.key] = NoObject

\* The second of two deletes of a key has reported an error.
C9_Witness ==
    /\ Ended("delete") /\ DeletedJustBefore
    /\ resp.status = 500
    /\ Present(bucket) # {}

-----------------------------------------------------------------------------
(* Claims about download-folder *)

\* The key without the prefix, and without one '/' if what is left starts
\* with one.
StrippedName(key, prefix) ==
    LET rest == SubSeq(key, Len(prefix) + 1, Len(key))
    IN  IF rest # <<>> /\ rest[1] = "/" THEN SubSeq(rest, 2, Len(rest)) ELSE rest

\* The name of a listed key in the archive: for the empty prefix the key as
\* it is, otherwise its stripped name.
EntryName(key, prefix) == IF prefix = <<>> THEN key ELSE StrippedName(key, prefix)

\* The entry names of the archive that was returned.
ArchiveNames == { resp.body.zip[i].name : i \in DOMAIN resp.body.zip }

\* The listed objects: one page of the objects whose key starts with the prefix.
ListedKeys == Range(files)

Archived == Ended("download-folder") /\ resp.status = 200

\* What the listing of the request is, said without the code: keys of the
\* bucket that start with the prefix, all of them when they fit one page.
ListingIsOfPrefix ==
    LET matching == { k \in Present(bucket) : StartsWith(k, req.prefix) }
    IN  /\ ListedKeys \subseteq matching
        /\ Cardinality(ListedKeys) = Len(files)
        /\ Cardinality(matching) <= PageSize => ListedKeys = matching

C4_ZipFailsAsAWhole ==
    req.op = "download-folder" =>
        /\ \A i \in 1..Len(calls) :
              /\ i = 1 => calls[i].op = "list"
              /\ i > 1 => calls[i].op = "read" /\ calls[i].key = files[i - 1]
              /\ ~calls[i].ok =>
                    /\ i = Len(calls)
                    /\ pc = "done"
                    /\ resp = ServerError
        /\ (pc = "done" /\ resp.status = 200) =>
              /\ Len(calls) = Len(files) + 1
              /\ \A i \in 1..Len(calls) : calls[i].ok

\* The fetch of the first of two listed objects has failed.
C4_Witness ==
    /\ Ended("download-folder")
    /\ Len(files) = 2
    /\ Len(calls) = 2 /\ ~calls[2].ok
    /\ resp = ServerError

-----------------------------------------------------------------------------
(* Claims about the empty-bucket operation *)

\* The delete requests the run has sent, in order.
DeleteCalls == SelectSeq(calls, LAMBDA c : c.op = "delete")

\* C5 as stated: when the delete call for an object fails the operation
\* halts: no delete request is sent for an object after it, and the failed
\* object and the objects after it in the listing are still in the bucket.
C5_EmptyHaltsAtFailedDelete ==
    req.op = "empty-bucket" =>
        \A i \in 1..Len(DeleteCalls) :
            ~DeleteCalls[i].ok =>
                /\ i = Len(DeleteCalls)
                /\ \A j \in i..Len(contents) : bucket[contents[j]] # NoObject

\* C6 as stated: the number of deleted objects the operation reports is the
\* number of objects whose delete was confirmed successful.
C6_ReportedCountIsConfirmed ==
    (req.op = "empty-bucket" /\ pc = "done" /\ toast.kind = "success") =>
        toast.count = Cardinality({ i \in 1..Len(DeleteCalls) : DeleteCalls[i].ok })

-----------------------------------------------------------------------------
(* Claims about the grouping of the file browser *)

\* What is left of a listed key under the current path: the key itself at the
\* root, otherwise the key without the path and without one leading '/'.
Rest(key) == EntryName(key, currentPath)

HasSeparator(s) == \E i \in DOMAIN s : s[i] = "/"

\* The part of s before its first '/'.
FirstSegment(s) ==
    SubSeq(s, 1, (CHOOSE i \in DOMAIN s :
                      s[i] = "/" /\ \A j \in 1..(i - 1) : s[j] # "/") - 1)

\* The three classes of a listed key.
IsFile(key) == key \in Range(grouped.files)

ContributesFolder(key) ==
    /\ HasSeparator(Rest(key))
    /\ FirstSegment(Rest(key)) \in Range(grouped.folders)

EqualsCurrentPath(key) == key = currentPath

IsFolderMarker(key) == currentPath # <<>> /\ key = currentPath \o <<"/">>

ExactlyOne(a, b, c) == (a /\ ~b /\ ~c) \/ (~a /\ b /\ ~c) \/ (~a /\ ~b /\ c)

NoFolderNameHasSeparator ==
    \A i \in DOMAIN grouped.folders : ~HasSeparator(grouped.folders[i])

\* C10 as stated: every listed key that starts with currentPath contributes a
\* folder name, or is a file, or equals currentPath exactly, and only one of
\* the three; no folder name contains '/'.
C10_Original ==
    /\ \A i \in DOMAIN objects :
          StartsWith(objects[i], currentPath) =>
              ExactlyOne(ContributesFolder(objects[i]), IsFile(objects[i]),
                         EqualsCurrentPath(objects[i]))
    /\ NoFolderNameHasSeparator

\* C10, amended: every listed key that starts with currentPath contributes a
\* folder name, or is a file, or is excluded, and only one of the three; it is
\* excluded when it equals currentPath or, for a non-empty currentPath,
\* currentPath followed by one '/'; no folder name contains '/'.
C10_GroupingPartition ==
    /\ \A i \in DOMAIN objects :
          StartsWith(objects[i], currentPath) =>
              ExactlyOne(ContributesFolder(objects[i]), IsFile(objects[i]),
                         EqualsCurrentPath(objects[i]) \/ IsFolderMarker(objects[i]))
    /\ NoFolderNameHasSeparator

\* The browser shows a path whose listing holds the object at the path itself
\* or its folder marker, beside a key of another class.
C10_Witness ==
    /\ currentPath # <<>>
    /\ \E i \in DOMAIN objects :
          EqualsCurrentPath(objects[i]) \/ IsFolderMarker(objects[i])
    /\ \E i \in DOMAIN objects :
          IsFile(objects[i]) \/ ContributesFolder(objects[i])

-----------------------------------------------------------------------------
(* Claims about the files and folders of the file browser *)

\* C11 as stated: every object shown as a file lives directly under
\* currentPath: for a non-empty currentPath its key is currentPath, '/', and a
\* non-empty name without '/'; for the empty currentPath its key has no '/'.
C11_FilesLiveDirectlyUnderPath ==
    \A i \in DOMAIN grouped.files :
        LET key == grouped.files[i]
            name == SubSeq(key, Len(currentPath) + 2, Len(key))
        IN  IF currentPath # <<>>
            THEN /\ StartsWith(key, currentPath \o <<"/">>)
                 /\ name # <<>>
                 /\ ~HasSeparator(name)
            ELSE ~HasSeparator(key)

\* The first segments of the keys of a listing whose rest has more than one
\* segment, one per such key, in the order of the listing.
RECURSIVE FirstSegments(_)
FirstSegments(objs) ==
    IF objs = <<>> THEN <<>>
    ELSE IF HasSeparator(Rest(Head(objs)))
         THEN <<FirstSegment(Rest(Head(objs)))>> \o FirstSegments(Tail(objs))
         ELSE FirstSegments(Tail(objs))

\* C12: the folder list is exactly the distinct first segments of the listed
\* keys whose relative path has more than one segment, each once, in the order
\* of first appearance: folders[j] is the j-th segment that appears for the
\* first time.
C12_FoldersAreDistinctFirstSegments ==
    LET segs == FirstSegments(objects)
        firsts == { i \in DOMAIN segs : \A h \in 1..(i - 1) : segs[h] # segs[i] }
    IN  /\ Len(grouped.folders) = Cardinality(firsts)
        /\ \A i \in firsts :
              grouped.folders[Cardinality({ h \in firsts : h <= i })] = segs[i]

\* Two listed keys share a folder that comes after another folder.
C12_Witness ==
    /\ Len(FirstSegments(objects)) = 3
    /\ Len(grouped.folders) = 2
    /\ FirstSegments(objects)[2] = FirstSegments(objects)[3]

-----------------------------------------------------------------------------
(* Claims about the file name and the page of download-folder *)

ZipSuffix == <<".", "z", "i", "p">>

FallbackZipName == <<"d", "o", "w", "n", "l", "o", "a", "d">> \o ZipSuffix

\* The prefix without the separators it ends with.
RECURSIVE WithoutTrailingSlashes(_)
WithoutTrailingSlashes(s) ==
    IF s # <<>> /\ s[Len(s)] = "/"
    THEN WithoutTrailingSlashes(SubSeq(s, 1, Len(s) - 1))
    ELSE s

\* The part of s after its last '/', all of s when it has none.
AfterLastSlash(s) ==
    IF HasSeparator(s)
    THEN SubSeq(s, (CHOOSE i \in DOMAIN s :
                        s[i] = "/" /\ \A j \in (i + 1)..Len(s) : s[j] # "/") + 1,
                Len(s))
    ELSE s

\* The last non-empty segment of the prefix, '' when it has none.
LastNonEmptySegment(prefix) == AfterLastSlash(WithoutTrailingSlashes(prefix))

\* C13: the file name download-folder suggests is "<s>.zip" for the last
\* non-empty segment s of the prefix, and the fallback "download.zip" when the
\* prefix has no non-empty segment.
C13_ZipFileName ==
    Archived =>
        LET s == LastNonEmptySegment(req.prefix)
        IN  /\ s # <<>> => resp.body.filename = s \o ZipSuffix
            /\ s = <<>> => resp.body.filename = FallbackZipName

\* An archive was returned for a prefix that ends with '/' after a segment.
C13_Witness ==
    /\ Archived
    /\ req.prefix # <<>>
    /\ req.prefix[Len(req.prefix)] = "/"
    /\ resp.body.filename # FallbackZipName

\* The keys of the bucket that start with the prefix of the request.
Matching == { k \in Present(bucket) : StartsWith(k, req.prefix) }

\* C14: download-folder asks for one listing page of at most PageSize keys.
\* When more objects match the prefix, the files of the request are the first
\* PageSize matching keys, no object beyond them is fetched, every entry of a
\* returned archive is the entry of a listed object, and the request succeeds
\* when its calls do.
C14_ZipStopsAtPage ==
    (req.op = "download-folder" /\ pc \in {"zip_loop", "done"}
        /\ Len(calls) >= 1 /\ calls[1].ok /\ Cardinality(Matching) > PageSize) =>
        /\ Len(files) = PageSize
        /\ ListedKeys \subseteq Matching
        /\ \A k \in ListedKeys : \A o \in Matching \ ListedKeys : KeyLess(k, o)
        /\ Len(SelectSeq(calls, LAMBDA c : c.op = "list")) = 1
        /\ \A i \in 2..Len(calls) : calls[i].key \in ListedKeys
        /\ (pc = "done" /\ \A i \in 1..Len(calls) : calls[i].ok) =>
              /\ resp.status = 200
              /\ \A i \in DOMAIN resp.body.zip :
                    \E k \in ListedKeys :
                        /\ resp.body.zip[i].name = EntryName(k, req.prefix)
                        /\ resp.body.zip[i].data = bucket[k]

\* An archive was returned although more objects match than a page holds.
C14_Witness ==
    /\ Archived
    /\ Cardinality(Matching) > PageSize
    /\ Len(resp.body.zip) = PageSize

-----------------------------------------------------------------------------
(* More claims about the empty-bucket operation and the move *)

\* C15 as stated: when an empty-bucket run ends with the success notification
\* (and nothing else has changed the bucket), the bucket holds no object.
C15_SuccessMeansEmpty ==
    (req.op = "empty-bucket" /\ pc = "done" /\ toast.kind = "success") =>
        Present(bucket) = {}

\* C17: a move with oldKey # newKey never loses the content: in every state
\* of the request, also after a failed step, the content oldKey held before is
\* at oldKey or at newKey; and the delete is issued only after the write has
\* succeeded.
C17_MoveKeepsContent ==
    (req.op = "move" /\ req.key # req.newKey /\ pre[req.key] # NoObject) =>
        /\ bucket[req.key] = pre[req.key] \/ bucket[req.newKey] = pre[req.key]
        /\ \A i \in 1..Len(calls) :
              calls[i].op = "delete" =>
                  \E h \in 1..(i - 1) : calls[h].op = "write" /\ calls[h].ok

\* The delete of a move has failed: both keys hold the content.
C17_Witness ==
    /\ Ended("move") /\ req.key # req.newKey
    /\ resp.status = 500
    /\ pre[req.key] # NoObject
    /\ bucket[req.key] = pre[req.key]
    /\ bucket[req.newKey] = pre[req.key]
    /\ pre[req.newKey] # pre[req.key]

-----------------------------------------------------------------------------
(* Claims about two moves in flight at the same time *)

\* Both moves have ended and every backend call of both succeeded.
BothMovesSucceeded == \A i \in MoveIds : moves[i].pc = "done" /\ moves[i].status = 200

\* One move on its own with every backend call succeeding; a move whose
\* oldKey holds no object fails at its read and changes nothing.
MoveAlone(b, m) ==
    IF b[m.oldKey] = NoObject
    THEN b
    ELSE Remove(Put(b, m.newKey, b[m.oldKey]), m.oldKey)

\* The buckets the two serial orders of the moves produce from b.
SerialOutcomes(b) ==
    { MoveAlone(MoveAlone(b, moves[1]), moves[2]),
      MoveAlone(MoveAlone(b, moves[2]), moves[1]) }

\* Two moves of the same oldKey to different new keys, neither of which held
\* the content of oldKey before.
SameSourceMoves ==
    /\ moves[1].oldKey = moves[2].oldKey
    /\ moves[1].newKey # moves[2].newKey
    /\ moves[1].oldKey \notin {moves[1].newKey, moves[2].newKey}
    /\ pre[moves[1].newKey] # pre[moves[1].oldKey]
    /\ pre[moves[2].newKey] # pre[moves[1].oldKey]

\* C16: moves are not serialized: whenever move(A,B) and move(A,C) both end
\* with every backend call succeeded (B and C not holding the content of A
\* before), their steps were interleaved (both read A before either deleted
\* it), the content of A is at both B and C, and this bucket is the outcome of
\* neither serial order.
C16_RaceOutcomeIsNotSerial ==
    (BothMovesSucceeded /\ SameSourceMoves) =>
        /\ \A i \in 1..Len(calls) : \A h \in 1..Len(calls) :
              (calls[i].op = "read" /\ calls[h].op = "delete") => i < h
        /\ bucket[moves[1].oldKey] = NoObject
        /\ bucket[moves[1].newKey] = pre[moves[1].oldKey]
        /\ bucket[moves[2].newKey] = pre[moves[1].oldKey]
        /\ bucket \notin SerialOutcomes(pre)

\* move(A,B) and move(A,C) have both ended with every call succeeded.
C16_Witness ==
    /\ BothMovesSucceeded
    /\ SameSourceMoves
    /\ Len(calls) = 6
    /\ bucket[moves[1].newKey] = bucket[moves[2].newKey]
    /\ bucket[moves[1].newKey] # NoObject

\* C19 as stated: after two concurrent moves (each with oldKey # newKey) in
\* which every backend call succeeded, every content the bucket held before
\* them is still stored under some key.
C19_RaceKeepsEveryContent ==
    (BothMovesSucceeded /\ \A i \in MoveIds : moves[i].oldKey # moves[i].newKey) =>
        \A k \in Present(pre) : \E h \in Present(bucket) : bucket[h] = pre[k]

-----------------------------------------------------------------------------
(* Claims about drag and drop *)

\* C18 as stated: after the move that a drop on a breadcrumb (the root button
\* or any part of currentPath, the last one included) requested has ended with
\* every backend step succeeded, the content of the dragged file is stored
\* under the computed new key.
C18_BreadcrumbDropKeepsFile ==
    (Ended("move") /\ AllSucceeded(3) /\ req.target.breadcrumb) =>
        At(bucket, req.newKey) = pre[req.key]

-----------------------------------------------------------------------------
(* Claims about the upload form *)

\* C20 as stated: once the upload request of a file of the form has been
\* answered with success, the content stored at the upload key is the raw
\* bytes of the file (the base64 data URL of the transport is undone).
C20_UploadRoundTrip ==
    (uploading /\ Ended("upload") /\ resp.status = 200) =>
        At(bucket, req.key) = Str(batch.files[fileIdx + 1].bytes)

-----------------------------------------------------------------------------
(* Claims about the entries of the archive and the upload queue *)

\* A prefix as handleDownloadFolder passes it: a folder path that does not
\* end with '/'.
IsFolderPath(prefix) == prefix # <<>> /\ prefix[Len(prefix)] # "/"

\* The listed keys that get an entry: those with a non-empty stripped name.
EntryKeys == { k \in ListedKeys : EntryName(k, req.prefix) # <<>> }

\* C22 as stated: for a folder path as prefix, two different listed keys with
\* non-empty stripped names get different entry names, the archive has one
\* entry for each of them, and each entry holds the content of its object.
C22_EntriesDoNotCollide ==
    (Archived /\ IsFolderPath(req.prefix)) =>
        /\ \A k \in EntryKeys : \A o \in EntryKeys \ {k} :
              EntryName(k, req.prefix) # EntryName(o, req.prefix)
        /\ Len(resp.body.zip) = Cardinality(EntryKeys)
        /\ \A k \in EntryKeys :
              \E i \in DOMAIN resp.body.zip :
                  /\ resp.body.zip[i].name = EntryName(k, req.prefix)
                  /\ resp.body.zip[i].data = bucket[k]

\* C23 as stated: a file leaves the upload queue only by removeFile or after
\* its own upload succeeded: a step that shortens the queue is taken while no
\* run is in progress (removeFile, one file), or ends a run whose files were
\* the whole queue and whose last request was answered with success.
C23_NoQueuedFileIsDropped ==
    [][ Len(uploadQueue') < Len(uploadQueue) =>
          \/ ~uploading /\ Len(uploadQueue') = Len(uploadQueue) - 1
          \/ /\ uploading
             /\ uploadQueue = batch.files
             /\ fileIdx + 1 = Len(batch.files)
             /\ resp.status = 200 ]_vars

\* The key the form displays for a file when the switch is on: the custom
\* prefix without the '/' around it, '/', the name; the bare name when the
\* custom prefix is empty or blank.
DisplayedKey(name, custom) ==
    IF StripSlashes(Trim(custom)) = <<>>
    THEN name
    ELSE StripSlashes(Trim(custom)) \o <<"/">> \o name

\* C24 as stated: with the custom-prefix switch on, the key of every upload
\* request is the displayed one, whatever currentPath is.
C24_CustomPrefixKey ==
    (uploading /\ req.op = "upload" /\ batch.useCustomPrefix) =>
        req.key = DisplayedKey(batch.files[fileIdx + 1].name, batch.customPrefix)

-----------------------------------------------------------------------------
(* Claims about the selection and the delete dialogs *)

\* C21: the selected keys are always keys of files the browser displays,
\* whatever was toggled, selected, navigated, refetched or deleted before.
C21_SelectionIsDisplayed ==
    Range(selectedKeys) \subseteq Range(grouped.files)

\* The requests of a bulk delete so far: one delete per key, in the order of
\* the keys, whatever the earlier ones answered.
BulkDeleteCalls ==
    /\ Len(calls) = bulk.i - 1
    /\ Len(calls) <= Len(bulk.keys)
    /\ \A j \in DOMAIN calls : calls[j].op = "delete" /\ calls[j].key = bulk.keys[j]

\* C25: a confirmed 'Delete Selected' runs over the keys selected at the
\* confirmation; it sends one delete request per key, in order, and goes on
\* after a delete that failed; it ends only after the last key, and then the
\* selection is empty and the bulk dialog is closed.
C25_BulkDeleteEveryKey ==
    [][ /\ (pc # "delete_bulk" /\ pc' = "delete_bulk")
            => bulk'.keys = selectedKeys /\ bulk'.i = 1 /\ calls' = <<>>
        /\ (pc = "delete_bulk" /\ pc' = "delete_bulk")
            => /\ bulk'.keys = bulk.keys
               /\ BulkDeleteCalls
               /\ BulkDeleteCalls'
               /\ Len(calls') <= Len(calls) + 1
        /\ (pc = "delete_bulk" /\ pc' # "delete_bulk")
            => /\ BulkDeleteCalls
               /\ Len(calls) = Len(bulk.keys)
               /\ calls' = calls
               /\ selectedKeys' = <<>>
               /\ ~showBulkDeleteConfirm'
      ]_vars

\* A bulk delete of two keys has ended; its first delete failed, its second
\* was sent and succeeded.
C25_Witness ==
    /\ pc = "idle"
    /\ bulk = NoBulk
    /\ Len(calls) = 2
    /\ calls[1].op = "delete" /\ ~calls[1].ok
    /\ calls[2].op = "delete" /\ calls[2].ok
    /\ calls[1].key # calls[2].key
    /\ selectedKeys = <<>>
    /\ ~showBulkDeleteConfirm

\* A step sends a delete request for key k to /api/delete.
DeleteSent(k) ==
    /\ Len(calls') = Len(calls) + 1
    /\ calls'[Len(calls')] \in { Call("delete", k, ok) : ok \in BOOLEAN }

\* C26: a delete request leaves the UI only from a routine that a dialog's
\* action button started: the 'Delete file?' dialog open for that key, the
\* bulk dialog, or the empty-bucket dialog.  A dialog closed without its
\* action button sends nothing.
C26_DeleteOnlyAfterConfirmation ==
    [][ /\ \A k \in DOMAIN bucket \cup DOMAIN bucket' :
              DeleteSent(k)
                => \/ pc = "delete_one" /\ deleting = Of(k)
                   \/ pc = "delete_bulk" /\ bulk.i \in DOMAIN bulk.keys
                                         /\ bulk.keys[bulk.i] = k
                   \/ pc = "empty_loop" /\ isEmptyingBucket
        /\ (Len(calls') > Len(calls))
              => \/ calls'[Len(calls')].op # "delete"
                 \/ \E k \in DOMAIN bucket : DeleteSent(k)
        /\ (pc # "delete_one" /\ pc' = "delete_one")
              => ~deleteKey.null /\ deleting' = Of(deleteKey.key)
        /\ (pc = "delete_one" /\ pc' = "delete_one") => deleting' = deleting
        /\ (pc # "delete_bulk" /\ pc' = "delete_bulk")
              => showBulkDeleteConfirm /\ bulk'.keys = selectedKeys
        /\ (~isEmptyingBucket /\ isEmptyingBucket') => showEmptyBucketConfirm
        /\ (pc # "empty_loop" /\ pc' = "empty_loop") => isEmptyingBucket
        /\ (~deleteKey.null /\ deleteKey'.null /\ pc' # "delete_one")
              => calls' = calls /\ bucket' = bucket
        /\ (showBulkDeleteConfirm /\ ~showBulkDeleteConfirm'
              /\ pc # "delete_bulk" /\ pc' # "delete_bulk")
              => calls' = calls /\ bucket' = bucket
        /\ (showEmptyBucketConfirm /\ ~showEmptyBucketConfirm'
              /\ ~isEmptyingBucket /\ ~isEmptyingBucket')
              => calls' = calls /\ bucket' = bucket
      ]_vars

\* The 'Delete file?' dialog was confirmed and the one delete it started was
\* sent and succeeded.
C26_Witness ==
    /\ pc = "idle"
    /\ deleteKey.null
    /\ deleting.null
    /\ bulk = NoBulk
    /\ Len(calls) = 1
    /\ calls[1].op = "delete" /\ calls[1].ok
    /\ toast = Toast("success", "File deleted successfully", 0)
    /\ At(bucket, calls[1].key) = NoObject

====
